---- MODULE Spec2Model ----
(***************************************************************************)
(* SkillScout.ai: the orchestration controller of src/App.tsx              *)
(* (startGeneration and the stage-gated user actions) together with the    *)
(* retry wrapper and the two agents of src/services/geminiService.ts.      *)
(*                                                                         *)
(* JavaScript values are encoded as follows.  An optional value            *)
(* (T | null | undefined) is a sequence of length 0 or 1.  Objects that    *)
(* the code shares by reference (the module objects of a plan) live in     *)
(* `heap` and are named by their index; a document holds the indices.      *)
(* Numbers and strings that the code compares with === are kept apart by   *)
(* spelling the number 429 as the string "429" and an absent field as      *)
(* "undefined".                                                            *)
(***************************************************************************)
EXTENDS Integers, Sequences, FiniteSets, TLC

VARIABLES
    status,       \* App.tsx:10   useState<AgentStatus>
    curriculum,   \* App.tsx:11   useState<Curriculum | null>
    heap,         \* the module objects created by runPlannerAgent (shared by reference)
    published,    \* every non-null document handed to setCurriculum in the current run
    publishedAs,  \* the deep content each of those documents had when it was handed over
    running,      \* number of startGeneration invocations that have not finished
    nRuns,        \* number of startGeneration invocations so far
    pc,           \* where the running startGeneration is suspended
    agent,        \* which agent issued the generation call under way
    plan,         \* startGeneration's local `plan`
    allTopics,    \* startGeneration's local `allTopics`
    i,            \* startGeneration's loop variable
    curatedContent, \* startGeneration's local `curatedContent` (result of the await)
    retries,      \* retryWithBackoff's parameter `retries` of the innermost call
    delay,        \* retryWithBackoff's parameter `delay` of the innermost call
    inFlight,     \* number of ai.models.generateContent calls not yet settled
    invocations,  \* how often fn() was invoked for the current retryWithBackoff call
    waits,        \* the setTimeout delays awaited for the current retryWithBackoff call
    fails429,     \* failures of fn() carrying a rate-limit signature, current call
    failsOther,   \* failures of fn() carrying none, current call
    callResult,   \* how the outermost retryWithBackoff settled: pending, ok or thrown
    thrownErr,    \* the error it rejected with
    raisedErr,    \* the error fn() raised last
    succeeded,    \* fn() has resolved in the current retryWithBackoff call
    curatorLog,   \* the (moduleIndex, topicIndex) of every runCuratorAgent call of the run
    throttles,    \* number of 6000 ms suspensions of the run
    plannerOutcome, \* how runPlannerAgent settled in the current run: none, ok, failed
                    \* (the generation call failed) or malformed (its answer was rejected)
    startedFrom,  \* while the planner is awaited: the stage the run was started in
    fnPc,         \* position of the function under study: none, in (called) or out (returned)
    fnIn,         \* the arguments it was called with
    fnOut         \* what it returned

ctrlVars == <<status, curriculum, heap, published, publishedAs, running, nRuns, pc, agent,
              plan, allTopics, i, curatedContent, retries, delay, inFlight, invocations,
              waits, fails429, failsOther, callResult, thrownErr, raisedErr, succeeded,
              curatorLog, throttles, plannerOutcome, startedFrom>>

fnVars == <<fnPc, fnIn, fnOut>>

vars == <<ctrlVars, fnVars>>

(***************************************************************************)
(* Bounds of the model.                                                    *)
(***************************************************************************)
\* A syllabus has at most MaxModules modules and MaxPlanTopics topics in all;
\* the form is submitted at most MaxRuns times.
MaxModules == 2
MaxPlanTopics == 3
MaxRuns == 2

(***************************************************************************)
(* Optional values.                                                        *)
(***************************************************************************)
None == <<>>
Some(x) == <<x>>
IsSome(o) == Len(o) = 1
Get(o) == o[1]

RECURSIVE SumSeq(_)
SumSeq(s) == IF s = <<>> THEN 0 ELSE s[1] + SumSeq(Tail(s))

(***************************************************************************)
(* retryWithBackoff: the errors fn() may raise and the retry policy.       *)
(***************************************************************************)
DefaultRetries == 3
DefaultDelay == 2000
ThrottleMs == 6000

\* Error values raised by ai.models.generateContent: the fields the catch
\* block of retryWithBackoff reads (msg429: message.includes('429')).
Errors ==
    { [status |-> "429", code |-> "undefined", msg429 |-> FALSE],
      [status |-> "undefined", code |-> "429", msg429 |-> FALSE],
      [status |-> "undefined", code |-> "undefined", msg429 |-> TRUE],
      [status |-> "RESOURCE_EXHAUSTED", code |-> "undefined", msg429 |-> FALSE],
      [status |-> "500", code |-> "500", msg429 |-> FALSE],
      [status |-> "undefined", code |-> "undefined", msg429 |-> FALSE] }

IsRateLimitAlways(error) == TRUE

IsRateLimitAnyStatus(error) == error.status # "undefined" \/ error.code = "429" \/ error.msg429

IsRateLimit(error) ==
    \/ error.status = "429"
    \/ error.code = "429"
    \/ error.msg429
    \/ error.status = "RESOURCE_EXHAUSTED"

HasBudgetOffByOne(r) == r >= 0

\* Line 73: retries > 0.
HasBudget(r) == r > 0

RethrownWrapped(error) == [status |-> "undefined", code |-> "undefined", msg429 |-> FALSE]

\* Line 83: throw error.
Rethrown(error) == error

NextDelaySame(d) == d

NextDelay(d) == d * 2

(***************************************************************************)
(* runPlannerAgent: what the generation call may answer, and the           *)
(* post-processing of a parsed answer.                                     *)
(***************************************************************************)
Shapes ==
    { sh \in UNION { [1..n -> 0..MaxPlanTopics] : n \in 0..MaxModules } :
          SumSeq(sh) <= MaxPlanTopics }

\* A planner response: no text, text that JSON.parse rejects, JSON without
\* `modules`, JSON with a module without `topics`, or a syllabus.  A
\* syllabus is given by the number of topics of each module and by the
\* flattened position (0: none) of a topic whose title is not a well-formed
\* UTF-16 string (JSON.parse accepts "\ud800").
PlannerResponses ==
    { [kind |-> k, shape |-> <<>>, bad |-> 0] :
          k \in {"noText", "badJson", "noModules", "noTopics"} }
    \cup UNION { { [kind |-> "plan", shape |-> sh, bad |-> b] : b \in 0..SumSeq(sh) } :
                  sh \in Shapes }

PositionOf(shape, m, t) == SumSeq(SubSeq(shape, 1, m - 1)) + t

\* JSON.parse(cleanText) for a syllabus response (line 154).
ParsedData(resp) ==
    [title |-> "title",
     description |-> "description",
     modules |->
        [m \in 1..Len(resp.shape) |->
            [title |-> m,
             topics |->
                [t \in 1..resp.shape[m] |->
                    [id |-> [m |-> 0, t |-> 0],
                     title |-> [name |-> <<m, t>>,
                                wellFormed |-> PositionOf(resp.shape, m, t) # resp.bad],
                     description |-> <<"description", m, t>>,
                     actionableStep |-> <<"actionableStep", m, t>>]]]]]

\* Lines 148, 154, 157, 159: the statements of runPlannerAgent that throw.
PlannerThrows(resp) == resp.kind # "plan"

\* Lines 157-163: ids are `m${mIdx}-t${tIdx}`, indices counted from 0, and
\* replace the id the answer gave (here the same one for every topic).
ProcessedModulesKeepingIds(data) ==
    [m \in 1..Len(data.modules) |->
        [title |-> data.modules[m].title,
         topics |->
            [t \in 1..Len(data.modules[m].topics) |->
                [id |-> data.modules[m].topics[t].id,
                 title |-> data.modules[m].topics[t].title,
                 description |-> data.modules[m].topics[t].description,
                 actionableStep |-> data.modules[m].topics[t].actionableStep,
                 curatedContent |-> None]]]]

ProcessedModules(data) ==
    [m \in 1..Len(data.modules) |->
        [title |-> data.modules[m].title,
         topics |->
            [t \in 1..Len(data.modules[m].topics) |->
                [id |-> [m |-> m - 1, t |-> t - 1],
                 title |-> data.modules[m].topics[t].title,
                 description |-> data.modules[m].topics[t].description,
                 actionableStep |-> data.modules[m].topics[t].actionableStep,
                 curatedContent |-> None]]]]

\* Lines 166-171: the Curriculum returned for the run-th call; `modules`
\* refers to the module objects, `ref` tells the document objects built from
\* it apart.
PlanOf(data, run, moduleRefs) ==
    [id |-> run, createdAt |-> run, title |-> data.title,
     description |-> data.description, ref |-> 0, modules |-> moduleRefs]

MergedTopicRewritten(topic, content) ==
    [topic EXCEPT !.curatedContent = content, !.actionableStep = <<>>]

\* App.tsx 61-64: { ...topic, curatedContent }.
MergedTopic(topic, content) == [topic EXCEPT !.curatedContent = content]

(***************************************************************************)
(* startGeneration: pure parts.                                            *)
(***************************************************************************)
RECURSIVE FlattenFrom(_, _)
FlattenFrom(mods, m) ==
    IF m > Len(mods) THEN <<>>
    ELSE [t \in 1..Len(mods[m].topics) |->
             [topic |-> mods[m].topics[t], moduleIndex |-> m - 1, topicIndex |-> t - 1]]
         \o FlattenFrom(mods, m + 1)

RECURSIVE FlattenBackFrom(_, _)
FlattenBackFrom(mods, m) ==
    IF m > Len(mods) THEN <<>>
    ELSE FlattenBackFrom(mods, m + 1)
         \o [t \in 1..Len(mods[m].topics) |->
             [topic |-> mods[m].topics[t], moduleIndex |-> m - 1, topicIndex |-> t - 1]]

FlattenReversed(mods) == FlattenBackFrom(mods, 1)

\* Lines 29-34: plan.modules.forEach / mod.topics.forEach.
Flatten(mods) == FlattenFrom(mods, 1)

LoopContinuesShort(k, totalTopics) == k < totalTopics - 1

\* Line 40: i < totalTopics.
LoopContinues(k, totalTopics) == k < totalTopics

NeedsThrottleAlways(k) == TRUE

\* Line 45: if (i > 0).
NeedsThrottle(k) == k > 0

ProgressTruncated(k, totalTopics) == (100 * k) \div totalTopics

\* Line 52: Math.round((i / totalTopics) * 100).
Progress(k, totalTopics) == (200 * k + totalTopics) \div (2 * totalTopics)

PlanningStatus == [stage |-> "planning", progress |-> 0, currentTask |-> None]

CuratingStartSkipped == [stage |-> "complete", progress |-> 0, currentTask |-> None]

\* Lines 22-26.
CuratingStart == [stage |-> "curating", progress |-> 0, currentTask |-> None]

\* Lines 49-54.
CuratingStatus(k, totalTopics, title) ==
    [stage |-> "curating", progress |-> Progress(k, totalTopics), currentTask |-> Some(title)]

\* Line 71.
CompleteStatus == [stage |-> "complete", progress |-> 100, currentTask |-> None]

ErrorStatusAsCurating == [stage |-> "curating", progress |-> 0, currentTask |-> None]

ErrorStatusAsComplete == [stage |-> "complete", progress |-> 0, currentTask |-> None]

\* Lines 75-79.
ErrorStatus == [stage |-> "error", progress |-> 0, currentTask |-> None]

\* Lines 10 and 140.
IdleStatus == [stage |-> "idle", progress |-> 0, currentTask |-> None]

PublishPlanOmitted(p) == None

\* Line 19: setCurriculum(plan).
PublishPlan(p) == Some(p)

\* The content of a document as a reader of it sees it now: the
\* curatedContent of every topic, through the module objects it refers to.
ContentOf(doc, h) ==
    [m \in 1..Len(doc.modules) |->
        [t \in 1..Len(h[doc.modules[m]].topics) |->
            h[doc.modules[m]].topics[t].curatedContent]]

(***************************************************************************)
(* The stage-gated user actions of App's render.                           *)
(***************************************************************************)
FormVisibleWithDocument == status.stage \in {"idle", "error"}

FormVisibleAnyStage == curriculum = None

\* Line 104: the form (and with it startGeneration) is offered.
FormVisible == status.stage \in {"idle", "error"} /\ curriculum = None

\* Line 134: the "Create New +" button is offered.
ResetVisible == status.stage = "complete" /\ curriculum # None

ResetCurriculumKept == curriculum

\* Line 141: setCurriculum(null).
ResetCurriculum == None

(***************************************************************************)
(* runCuratorAgent: what the generation call may answer and what the       *)
(* agent makes of it.                                                      *)
(***************************************************************************)
\* cited: at least one grounding chunk with uri and title, all uris
\* parsable; uncited: no such chunk; badUri: a chunk whose uri makes
\* `new URL(uri)` throw (line 226).
CuratorResponses == {"cited", "uncited", "badUri"}

\* encodeURIComponent throws URIError on a string holding a lone surrogate.
EncodeThrows(title) == ~title.wellFormed

\* Lines 291-306: the catch block.  None: the block itself throws (line 294).
CuratorCatch(title) ==
    IF EncodeThrows(title) THEN None
    ELSE Some([summary |-> "Could not curate", resources |-> "googleSearch", topic |-> title.name])

\* Lines 200-306, given how retryWithBackoff settled (ok) and the response.
\* None: runCuratorAgent rejects.
RunCuratorAgent(title, ok, resp) ==
    IF ~ok THEN CuratorCatch(title)
    ELSE IF resp = "badUri" THEN CuratorCatch(title)
    ELSE IF resp = "uncited"
         THEN IF EncodeThrows(title) THEN CuratorCatch(title)
              ELSE Some([summary |-> "Here are N", resources |-> "searchFallback",
                         topic |-> title.name])
    ELSE Some([summary |-> "Here are N", resources |-> "grounded", topic |-> title.name])

(***************************************************************************)
(* Initial state: App has mounted, nothing has been submitted.             *)
(***************************************************************************)
NoPlan == [id |-> 0, createdAt |-> 0, title |-> "", description |-> "", ref |-> 0,
           modules |-> <<>>]

CtrlInit ==
    /\ status = IdleStatus
    /\ curriculum = None
    /\ heap = <<>>
    /\ published = <<>>
    /\ publishedAs = <<>>
    /\ running = 0
    /\ nRuns = 0
    /\ pc = "none"
    /\ agent = "none"
    /\ plan = NoPlan
    /\ allTopics = <<>>
    /\ i = 0
    /\ curatedContent = None
    /\ retries = 0
    /\ delay = 0
    /\ inFlight = 0
    /\ invocations = 0
    /\ waits = <<>>
    /\ fails429 = 0
    /\ failsOther = 0
    /\ callResult = "none"
    /\ thrownErr = None
    /\ raisedErr = None
    /\ succeeded = FALSE
    /\ curatorLog = <<>>
    /\ throttles = <<>>
    /\ plannerOutcome = "none"
    /\ startedFrom = "none"

\* No function is under study while the application runs.
FnIdle == fnPc = "none" /\ fnIn = None /\ fnOut = None

Init == CtrlInit /\ FnIdle

\* The claim's wording of a rate-limit signature, used only to classify the
\* failures that are counted in fails429 / failsOther.
HasRateLimitSignature(e) ==
    e.status \in {"429", "RESOURCE_EXHAUSTED"} \/ e.code = "429" \/ e.msg429

\* retryWithBackoff(fn) entered with the default parameters; fn() is
\* invoked at once (line 70), which issues the generation call.
EnterRetry ==
    /\ retries' = DefaultRetries
    /\ delay' = DefaultDelay
    /\ inFlight' = inFlight + 1
    /\ invocations' = 1
    /\ waits' = <<>>
    /\ fails429' = 0
    /\ failsOther' = 0
    /\ callResult' = "pending"
    /\ thrownErr' = None
    /\ raisedErr' = None
    /\ succeeded' = FALSE

\* The caller has consumed the settled retryWithBackoff call.
LeaveRetry ==
    /\ retries' = 0
    /\ delay' = 0
    /\ invocations' = 0
    /\ waits' = <<>>
    /\ fails429' = 0
    /\ failsOther' = 0
    /\ callResult' = "none"
    /\ thrownErr' = None
    /\ raisedErr' = None
    /\ succeeded' = FALSE
    /\ UNCHANGED inFlight

\* startGeneration has returned: its locals are gone.
DropLocals ==
    /\ plan' = NoPlan
    /\ allTopics' = <<>>
    /\ i' = 0
    /\ curatedContent' = None
    /\ agent' = "none"
    /\ pc' = "none"

(***************************************************************************)
(* The form is submitted: startGeneration runs up to its first await       *)
(* (App.tsx 14-18, geminiService.ts 120-145, 68-70).                       *)
(***************************************************************************)
Start ==
    /\ UNCHANGED fnVars
    /\ FormVisible
    /\ nRuns < MaxRuns
    /\ nRuns' = nRuns + 1
    /\ running' = running + 1
    /\ status' = PlanningStatus
    /\ EnterRetry
    /\ pc' = "gen"
    /\ agent' = "planner"
    /\ plan' = NoPlan
    /\ allTopics' = <<>>
    /\ i' = 0
    /\ curatedContent' = None
    /\ heap' = <<>>
    /\ published' = <<>>
    /\ publishedAs' = <<>>
    /\ curatorLog' = <<>>
    /\ throttles' = <<>>
    /\ plannerOutcome' = "none"
    /\ startedFrom' = status.stage
    /\ UNCHANGED curriculum

(***************************************************************************)
(* The generation call under way settles (geminiService.ts 69-84).         *)
(***************************************************************************)
GenerateContentSucceeds ==
    /\ UNCHANGED fnVars
    /\ pc = "gen"
    /\ inFlight' = inFlight - 1
    /\ callResult' = "ok"
    /\ succeeded' = TRUE
    /\ pc' = "settled"
    /\ UNCHANGED <<status, curriculum, heap, published, publishedAs, running, nRuns, agent,
                   plan, allTopics, i, curatedContent, retries, delay, invocations, waits,
                   fails429, failsOther, thrownErr, raisedErr, curatorLog, throttles,
                   plannerOutcome, startedFrom>>

GenerateContentFails ==
    /\ UNCHANGED fnVars
    /\ pc = "gen"
    /\ \E error \in Errors :
        /\ inFlight' = inFlight - 1
        /\ raisedErr' = Some(error)
        /\ fails429' = fails429 + (IF HasRateLimitSignature(error) THEN 1 ELSE 0)
        /\ failsOther' = failsOther + (IF HasRateLimitSignature(error) THEN 0 ELSE 1)
        /\ IF HasBudget(retries) /\ IsRateLimit(error)
           THEN \* line 80: await setTimeout(delay)
                /\ waits' = Append(waits, delay)
                /\ pc' = "backoff"
                /\ UNCHANGED <<callResult, thrownErr>>
           ELSE \* line 83: throw error
                /\ callResult' = "thrown"
                /\ thrownErr' = Some(Rethrown(error))
                /\ pc' = "settled"
                /\ UNCHANGED waits
    /\ UNCHANGED <<status, curriculum, heap, published, publishedAs, running, nRuns, agent,
                   plan, allTopics, i, curatedContent, retries, delay, invocations,
                   succeeded, curatorLog, throttles, plannerOutcome, startedFrom>>

\* Line 81: retryWithBackoff(fn, retries - 1, delay * 2), which invokes fn().
BackoffElapsed ==
    /\ UNCHANGED fnVars
    /\ pc = "backoff"
    /\ retries' = retries - 1
    /\ delay' = NextDelay(delay)
    /\ inFlight' = inFlight + 1
    /\ invocations' = invocations + 1
    /\ pc' = "gen"
    /\ UNCHANGED <<status, curriculum, heap, published, publishedAs, running, nRuns, agent,
                   plan, allTopics, i, curatedContent, waits, fails429, failsOther,
                   callResult, thrownErr, raisedErr, succeeded, curatorLog, throttles, plannerOutcome, startedFrom>>

(***************************************************************************)
(* runPlannerAgent settles and startGeneration resumes after line 18.      *)
(***************************************************************************)
\* runPlannerAgent rejects (lines 148, 154, 157, 159 or the rethrow of 175)
\* and startGeneration's catch runs (App.tsx 73-80).
PlannerFails ==
    /\ UNCHANGED fnVars
    /\ pc = "settled"
    /\ agent = "planner"
    /\ \/ callResult = "thrown"
       \/ callResult = "ok" /\ \E resp \in PlannerResponses : PlannerThrows(resp)
    /\ plannerOutcome' = (IF callResult = "ok" THEN "malformed" ELSE "failed")
    /\ startedFrom' = "none"
    /\ status' = ErrorStatus
    /\ running' = running - 1
    /\ DropLocals
    /\ LeaveRetry
    /\ UNCHANGED <<curriculum, heap, published, publishedAs, nRuns, curatorLog, throttles>>

\* runPlannerAgent resolves; App.tsx 19-37 run without suspension.
PlannerSucceeds ==
    /\ UNCHANGED fnVars
    /\ pc = "settled"
    /\ agent = "planner"
    /\ callResult = "ok"
    /\ \E resp \in PlannerResponses :
        /\ ~PlannerThrows(resp)
        /\ LET mods == ProcessedModules(ParsedData(resp))
               p == PlanOf(ParsedData(resp), nRuns, [m \in 1..Len(mods) |-> m])
           IN  /\ heap' = mods
               /\ plan' = p
               /\ curriculum' = PublishPlan(p)
               /\ published' = PublishPlan(p)
               /\ publishedAs' = [k \in 1..Len(PublishPlan(p)) |-> ContentOf(p, mods)]
               /\ allTopics' = Flatten(mods)
    /\ status' = CuratingStart
    /\ i' = 0
    /\ pc' = "loop"
    /\ plannerOutcome' = "ok"
    /\ startedFrom' = "none"
    /\ LeaveRetry
    /\ UNCHANGED <<running, nRuns, agent, curatedContent, curatorLog, throttles>>

(***************************************************************************)
(* The curation loop (App.tsx 40-68).                                      *)
(***************************************************************************)
\* Lines 45-47.
Throttle ==
    /\ UNCHANGED fnVars
    /\ pc = "loop"
    /\ LoopContinues(i, Len(allTopics))
    /\ NeedsThrottle(i)
    /\ throttles' = Append(throttles, ThrottleMs)
    /\ pc' = "throttle"
    /\ UNCHANGED <<status, curriculum, heap, published, publishedAs, running, nRuns, agent,
                   plan, allTopics, i, curatedContent, retries, delay, inFlight,
                   invocations, waits, fails429, failsOther, callResult, thrownErr,
                   raisedErr, succeeded, curatorLog, plannerOutcome, startedFrom>>

\* Lines 49-58 and geminiService.ts 181-201: the status is published and
\* runCuratorAgent issues its generation call.
CallCurator ==
    /\ UNCHANGED fnVars
    /\ \/ pc = "throttle"
       \/ pc = "loop" /\ LoopContinues(i, Len(allTopics)) /\ ~NeedsThrottle(i)
    /\ LET e == allTopics[i + 1]
       IN  /\ status' = CuratingStatus(i, Len(allTopics), e.topic.title)
           /\ curatorLog' = Append(curatorLog, [moduleIndex |-> e.moduleIndex,
                                                 topicIndex |-> e.topicIndex])
    /\ EnterRetry
    /\ pc' = "gen"
    /\ agent' = "curator"
    /\ UNCHANGED <<curriculum, heap, published, publishedAs, running, nRuns, plan,
                   allTopics, i, curatedContent, throttles, plannerOutcome, startedFrom>>

\* runCuratorAgent resolves with a CuratedContent.
CuratorResolves ==
    /\ UNCHANGED fnVars
    /\ pc = "settled"
    /\ agent = "curator"
    /\ \E resp \in CuratorResponses :
        LET r == RunCuratorAgent(allTopics[i + 1].topic.title, callResult = "ok", resp)
        IN  /\ r # None
            /\ curatedContent' = r
    /\ pc' = "merge"
    /\ LeaveRetry
    /\ UNCHANGED <<status, curriculum, heap, published, publishedAs, running, nRuns, agent,
                   plan, allTopics, i, curatorLog, throttles, plannerOutcome, startedFrom>>

\* runCuratorAgent rejects and startGeneration's catch runs (App.tsx 73-80).
CuratorRejects ==
    /\ UNCHANGED fnVars
    /\ pc = "settled"
    /\ agent = "curator"
    /\ \E resp \in CuratorResponses :
        RunCuratorAgent(allTopics[i + 1].topic.title, callResult = "ok", resp) = None
    /\ status' = ErrorStatus
    /\ running' = running - 1
    /\ DropLocals
    /\ LeaveRetry
    /\ UNCHANGED <<curriculum, heap, published, publishedAs, nRuns, curatorLog, throttles,
                   plannerOutcome, startedFrom>>

\* Lines 61-67: the topic is written into the module object that
\* enrichedModules[moduleIndex] refers to (enrichedModules is a copy of the
\* array plan.modules, so it holds the plan's own module objects), and a
\* new document object is published.
MergeAndPublish ==
    /\ UNCHANGED fnVars
    /\ pc = "merge"
    /\ LET e == allTopics[i + 1]
           mref == plan.modules[e.moduleIndex + 1]
           newTopic == MergedTopic(e.topic, curatedContent)
           h == [heap EXCEPT ![mref].topics[e.topicIndex + 1] = newTopic]
           doc == [plan EXCEPT !.ref = i + 1]
       IN  /\ heap' = h
           /\ curriculum' = Some(doc)
           /\ published' = Append(published, doc)
           /\ publishedAs' = Append(publishedAs, ContentOf(doc, h))
    /\ i' = i + 1
    /\ curatedContent' = None
    /\ pc' = "loop"
    /\ UNCHANGED <<status, running, nRuns, agent, plan, allTopics, retries, delay, inFlight,
                   invocations, waits, fails429, failsOther, callResult, thrownErr,
                   raisedErr, succeeded, curatorLog, throttles, plannerOutcome, startedFrom>>

\* Line 71: the loop is over.
Complete ==
    /\ UNCHANGED fnVars
    /\ pc = "loop"
    /\ ~LoopContinues(i, Len(allTopics))
    /\ status' = CompleteStatus
    /\ running' = running - 1
    /\ DropLocals
    /\ UNCHANGED <<curriculum, heap, published, publishedAs, nRuns, retries, delay,
                   inFlight, invocations, waits, fails429, failsOther, callResult,
                   thrownErr, raisedErr, succeeded, curatorLog, throttles, plannerOutcome, startedFrom>>

(***************************************************************************)
(* "Create New +" (App.tsx 139-142).                                       *)
(***************************************************************************)
Reset ==
    /\ UNCHANGED fnVars
    /\ ResetVisible
    /\ status' = IdleStatus
    /\ curriculum' = ResetCurriculum
    /\ UNCHANGED <<heap, published, publishedAs, running, nRuns, pc, agent, plan,
                   allTopics, i, curatedContent, retries, delay, inFlight, invocations,
                   waits, fails429, failsOther, callResult, thrownErr, raisedErr, succeeded,
                   curatorLog, throttles, plannerOutcome, startedFrom>>

Next ==
    \/ Start
    \/ GenerateContentSucceeds
    \/ GenerateContentFails
    \/ BackoffElapsed
    \/ PlannerFails
    \/ PlannerSucceeds
    \/ Throttle
    \/ CallCurator
    \/ CuratorResolves
    \/ CuratorRejects
    \/ MergeAndPublish
    \/ Complete
    \/ Reset

Spec == Init /\ [][Next]_vars

(***************************************************************************)
(* Strings.  A string is a sequence of tokens; a token stands for the      *)
(* characters it spells.  The strings below are built from the prefixes,   *)
(* hosts, separators, words and site suffixes that the string operations   *)
(* of geminiService.ts look for, in both letter cases.                     *)
(***************************************************************************)
\* String.prototype.toLowerCase, token by token.
LowerTok(t) ==
    CASE t = "HTTP://" -> "http://"
      [] t = "HTTPS://" -> "https://"
      [] t = "WWW." -> "www."
      [] t = "Example.com" -> "example.com"
      [] t = "YOUTUBE.COM" -> "youtube.com"
      [] t = "X" -> "x"
      [] t = "Intro" -> "intro"
      [] t = "Video" -> "video"
      [] t = "YouTube" -> "youtube"
      [] t = "Home" -> "home"
      [] t = "- YouTube" -> "- youtube"
      [] t = "| Coursera" -> "| coursera"
      [] t = "- GeeksforGeeks" -> "- geeksforgeeks"
      [] t = "- Wikipedia" -> "- wikipedia"
      [] t = "SQL" -> "sql"
      [] t = "Guide" -> "guide"
      [] t = "(Video)" -> "(video)"
      [] OTHER -> t

Lower(str) == [k \in 1..Len(str) |-> LowerTok(str[k])]

DropFirst(str, n) == SubSeq(str, n + 1, Len(str))

DropLast(str, n) == SubSeq(str, 1, Len(str) - n)

EndsWith(str, suffix) ==
    /\ Len(str) >= Len(suffix)
    /\ SubSeq(str, Len(str) - Len(suffix) + 1, Len(str)) = suffix

\* String.prototype.trim.
RECURSIVE TrimStart(_)
TrimStart(str) ==
    IF str # <<>> /\ str[1] = " " THEN TrimStart(Tail(str)) ELSE str

RECURSIVE TrimEnd(_)
TrimEnd(str) ==
    IF str # <<>> /\ str[Len(str)] = " " THEN TrimEnd(DropLast(str, 1)) ELSE str

Trim(str) == TrimEnd(TrimStart(str))

(***************************************************************************)
(* normalizeUrl (geminiService.ts 24-32).                                  *)
(***************************************************************************)
\* /^(https?:\/\/)?(www\.)?/ : the pattern has no i flag.
StripSchemeAndWww(url) ==
    LET afterScheme == IF url # <<>> /\ url[1] \in {"http://", "https://"}
                       THEN Tail(url) ELSE url
    IN  IF afterScheme # <<>> /\ afterScheme[1] = "www." THEN Tail(afterScheme)
        ELSE afterScheme

\* /\/$/
StripTrailingSlash(url) ==
    IF url # <<>> /\ url[Len(url)] = "/" THEN DropLast(url, 1) ELSE url

\* Line 27: url.replace(prefix, '').replace(slash, '').toLowerCase().
NormalizeUrl(url) == Lower(StripTrailingSlash(StripSchemeAndWww(url)))

\* The uris normalizeUrl is studied on: an optional scheme, an optional
\* www., a host and a path, in both letter cases.
UrlSchemes == { <<>>, <<"http://">>, <<"https://">>, <<"HTTP://">>, <<"HTTPS://">> }
UrlWww == { <<>>, <<"www.">>, <<"WWW.">> }
UrlHosts == { <<"example.com">>, <<"Example.com">> }
UrlPaths == { <<>>, <<"/">>, <<"/", "x">>, <<"/", "X">>, <<"/", "x", "/">> }

Urls == { a \o b \o c \o d : a \in UrlSchemes, b \in UrlWww, c \in UrlHosts, d \in UrlPaths }

UrlInit ==
    /\ CtrlInit
    /\ fnPc = "in"
    /\ fnIn \in Urls \X Urls
    /\ fnOut = None

ApplyNormalizeUrl ==
    /\ fnPc = "in"
    /\ fnOut' = Some(<<NormalizeUrl(fnIn[1]), NormalizeUrl(fnIn[2])>>)
    /\ fnPc' = "out"
    /\ UNCHANGED <<fnIn, ctrlVars>>

UrlNext == ApplyNormalizeUrl

UrlSpec == UrlInit /\ [][UrlNext]_vars

(***************************************************************************)
(* cleanTitle (geminiService.ts 35-65).                                    *)
(***************************************************************************)
\* String.prototype.includes on a lower-cased string, for the three hosts.
IncludesYoutube(str) == \E k \in 1..Len(str) : str[k] \in {"youtube.com", "youtube", "- youtube"}
IncludesYoutuBe(str) == \E k \in 1..Len(str) : str[k] = "youtu.be"
IncludesVimeo(str) == \E k \in 1..Len(str) : str[k] = "vimeo.com"

\* Lines 41 and 61.
SynthesizedTitle(isVideo, topicTitle) ==
    IF isVideo THEN topicTitle \o <<" ", "(Video)">> ELSE topicTitle \o <<" ", "Guide">>

\* clean.replace(/ - YouTube$/, '') and its three siblings: one suffix.
StripSuffix(str, site) ==
    IF EndsWith(str, <<" ", site>>) THEN DropLast(str, 2) ELSE str

\* Line 47: the four replacements, in the order of the source.
StripSuffixes(str) ==
    StripSuffix(StripSuffix(StripSuffix(StripSuffix(str, "- YouTube"), "| Coursera"),
                            "- GeeksforGeeks"), "- Wikipedia")

\* Lines 51-59.
IsGenericTitle(lower) ==
    \/ lower \in { <<"youtube">>, <<"youtube.com">>, <<"video">>, <<"article">>,
                   <<"home">>, <<"index">> }
    \/ lower # <<>> /\ lower[1] \in {"http", "http://", "https://"}

\* title: an optional string (undefined: None).
CleanTitle(title, uri, topicTitle) ==
    LET cleanUri == NormalizeUrl(uri)
    IN  IF title = None \/ Get(title) = <<>> \/ Trim(Get(title)) = <<>>
        THEN SynthesizedTitle(IncludesYoutube(cleanUri) \/ IncludesYoutuBe(cleanUri)
                                  \/ IncludesVimeo(cleanUri), topicTitle)
        ELSE LET clean == StripSuffixes(Trim(Get(title)))
             IN  IF IsGenericTitle(Lower(clean))
                 THEN SynthesizedTitle(IncludesYoutube(cleanUri) \/ IncludesYoutuBe(cleanUri),
                                       topicTitle)
                 ELSE clean

\* The raw titles, uris and topic titles cleanTitle is studied on.
MaxTitleLen == 4
TitleTokens == {"Intro", " ", "- YouTube", "- Wikipedia", "video"}
RawTitles == UNION { [1..n -> TitleTokens] : n \in 0..MaxTitleLen }
TitleUris ==
    { <<"https://", "www.", "youtube.com", "/", "watch?v=", "abc12345678">>,
      <<"https://", "vimeo.com", "/", "x">>,
      <<"https://", "example.com", "/", "x">> }
TopicTitles == { <<"SQL">>, <<"SQL", " ">> }

TitleInit ==
    /\ CtrlInit
    /\ fnPc = "in"
    /\ fnIn \in (RawTitles \X TitleUris) \X TopicTitles
    /\ fnOut = None

\* cleanTitle, cleanTitle applied to its own result, and cleanTitle of a
\* blank title for the same uri and topic.
ApplyCleanTitle ==
    /\ fnPc = "in"
    /\ LET t == fnIn[1][1]
           u == fnIn[1][2]
           p == fnIn[2]
           once == CleanTitle(Some(t), u, p)
       IN  fnOut' = Some(<<once, CleanTitle(Some(once), u, p), CleanTitle(Some(<<" ">>), u, p)>>)
    /\ fnPc' = "out"
    /\ UNCHANGED <<fnIn, ctrlVars>>

TitleNext == ApplyCleanTitle

TitleSpec == TitleInit /\ [][TitleNext]_vars

(***************************************************************************)
(* runCuratorAgent in detail (geminiService.ts 9-21 and 181-307): the      *)
(* resource list built from the grounding chunks and the response text.    *)
(* A resource is [title, uri, source, thumbnail, description]; a chunk is  *)
(* the pair [uri, title] of chunk.web, each optional; an item of the       *)
(* parsed text is [uri, description, title], each optional.                *)
(***************************************************************************)
MaxResources == 5
LongTitleLength == 100
VideoIdLength == 11

\* Number of characters of the tokens that occur behind a video marker or in
\* an item title.
TokLen(t) ==
    CASE t = "abc12345678" -> 11
      [] t = "abc123" -> 6
      [] t = "LongText" -> 100
      [] t = "Intro" -> 5
      [] t = " " -> 1
      [] t = "- YouTube" -> 9
      [] t = "video" -> 5
      [] OTHER -> 1

RECURSIVE StrLen(_)
StrLen(str) == IF str = <<>> THEN 0 ELSE TokLen(str[1]) + StrLen(Tail(str))

\* The alternatives of group 1 of the pattern of line 12.
VideoMarkers == {"youtu.be/", "v/", "u/w/", "embed/", "watch?v=", "&v=", "shorts/"}

\* Group 2 of that pattern, [^#&?]*, read from the start of a string.
RECURSIVE UntilDelimiter(_)
UntilDelimiter(str) ==
    IF str = <<>> \/ str[1] \in {"#", "&", "?"} THEN <<>>
    ELSE <<str[1]>> \o UntilDelimiter(Tail(str))

\* Lines 9-15: the greedy ^.* makes the last marker the one that counts.
GetYouTubeVideoId(url) ==
    LET at == { k \in 1..Len(url) : url[k] \in VideoMarkers }
    IN  IF at = {} THEN None
        ELSE LET last == CHOOSE k \in at : \A j \in at : j <= k
                 id == UntilDelimiter(DropFirst(url, last))
             IN  IF StrLen(id) = VideoIdLength THEN Some(id) ELSE None

\* Lines 17-21.
GetYouTubeThumbnail(url) ==
    LET id == GetYouTubeVideoId(url)
    IN  IF id = None THEN None
        ELSE Some(<<"https://img.youtube.com/vi/">> \o Get(id) \o <<"/hqdefault.jpg">>)

\* new URL(uri) throws unless the uri starts with a scheme.
UrlParses(uri) == uri # <<>> /\ LowerTok(uri[1]) \in {"http://", "https://"}

RECURSIVE UntilSlash(_)
UntilSlash(str) ==
    IF str = <<>> \/ str[1] = "/" THEN <<>> ELSE <<str[1]>> \o UntilSlash(Tail(str))

\* String.replace with a string pattern: the first occurrence only.
RECURSIVE ReplaceFirst(_, _)
ReplaceFirst(str, tok) ==
    IF str = <<>> THEN <<>>
    ELSE IF str[1] = tok THEN Tail(str)
    ELSE <<str[1]>> \o ReplaceFirst(Tail(str), tok)

\* Line 226: new URL(uri).hostname.replace('www.', '').
SourceOf(uri) == ReplaceFirst(Lower(UntilSlash(Tail(uri))), "www.")

\* Line 217: chunk.web?.uri && chunk.web?.title.
Truthy(optStr) == optStr # None /\ Get(optStr) # <<>>

UsableChunks(chunks) == SelectSeq(chunks, LAMBDA c : Truthy(c.uri) /\ Truthy(c.title))

\* Lines 218-230 throw when one uri does not parse.
GroundingThrows(chunks) ==
    \E k \in 1..Len(UsableChunks(chunks)) : ~UrlParses(Get(UsableChunks(chunks)[k].uri))

\* Lines 216-230.
GroundedResources(chunks, topicName) ==
    LET usable == UsableChunks(chunks)
    IN  [k \in 1..Len(usable) |->
            [title |-> CleanTitle(usable[k].title, Get(usable[k].uri), topicName),
             uri |-> Get(usable[k].uri),
             source |-> SourceOf(Get(usable[k].uri)),
             thumbnail |-> GetYouTubeThumbnail(Get(usable[k].uri)),
             description |-> <<"Recommended resource found via Google Search.">>]]

\* Line 242: resources.find(...), as an index (0: no match).
FindMatch(resources, uri) ==
    LET at == { k \in 1..Len(resources) : NormalizeUrl(resources[k].uri) = NormalizeUrl(uri) }
    IN  IF at = {} THEN 0 ELSE CHOOSE k \in at : \A j \in at : k <= j

\* Lines 241-249: the body of parsed.forEach.
EnrichItemAdding(resources, item, topicName) ==
    IF ~(Truthy(item.uri) /\ Truthy(item.description)) THEN resources
    ELSE IF FindMatch(resources, Get(item.uri)) = 0
         THEN Append(resources,
                     [title |-> CleanTitle(item.title, Get(item.uri), topicName),
                      uri |-> Get(item.uri), source |-> <<>>, thumbnail |-> None,
                      description |-> Get(item.description)])
         ELSE resources

EnrichItem(resources, item, topicName) ==
    IF ~(Truthy(item.uri) /\ Truthy(item.description)) THEN resources
    ELSE LET k == FindMatch(resources, Get(item.uri))
         IN  IF k = 0 THEN resources
             ELSE [resources EXCEPT
                      ![k].description = Get(item.description),
                      ![k].title = IF Truthy(item.title)
                                      /\ StrLen(Get(item.title)) < LongTitleLength
                                   THEN CleanTitle(item.title, Get(item.uri), topicName)
                                   ELSE @]

RECURSIVE EnrichFrom(_, _, _, _)
EnrichFrom(resources, items, k, topicName) ==
    IF k > Len(items) THEN resources
    ELSE EnrichFrom(EnrichItem(resources, items[k], topicName), items, k + 1, topicName)

\* Lines 234-255: text is [kind, items]; kind none (no text), unparsable
\* (JSON.parse throws), object (parsed, no array) or array.
Enrich(resources, text, topicName) ==
    IF text.kind = "array" THEN EnrichFrom(resources, text.items, 1, topicName)
    ELSE resources

\* encodeURIComponent on the characters of the modelled strings.
EncodeTok(t) ==
    CASE t = " " -> "%20"
      [] t = "\"" -> "%22"
      [] t = ":" -> "%3A"
      [] OTHER -> t

EncodeURIComponent(str) == [k \in 1..Len(str) |-> EncodeTok(str[k])]

\* Lines 259-274.
SearchFallback(topicName, context) ==
    << [title |-> <<"Search Google for ", "\"">> \o topicName \o <<"\"">>,
        uri |-> <<"https://", "www.", "google.com", "/", "search?q=">>
                  \o EncodeURIComponent(topicName \o <<" ">> \o context \o <<" ", "tutorial">>),
        source |-> <<"google.com">>,
        description |-> <<"No specific verified links found. Click to search manually.">>,
        thumbnail |-> None],
       [title |-> <<"Search YouTube for ", "\"">> \o topicName \o <<"\"">>,
        uri |-> <<"https://", "www.", "youtube.com", "/", "results?search_query=">>
                  \o EncodeURIComponent(topicName \o <<" ", "tutorial">>),
        source |-> <<"youtube.com">>,
        description |-> <<"Find video tutorials on YouTube.">>,
        thumbnail |-> None] >>

\* Lines 280-281.
IsRoot(uri) ==
    Lower(uri) \in { <<"https://", "www.", "youtube.com", "/">>,
                     <<"https://", "www.", "google.com", "/">>,
                     <<"https://", "youtube.com", "/">> }

\* Lines 278-284.
RootFilterAnyLength(resources) == SelectSeq(resources, LAMBDA r : ~IsRoot(r.uri))

RootFilter(resources) ==
    IF Len(resources) > 2 THEN SelectSeq(resources, LAMBDA r : ~IsRoot(r.uri))
    ELSE resources

\* Lines 286-289: the count in the summary is taken before the slice.
CuratedResult(resources, topicName) ==
    [summary |-> [text |-> "Here are N curated resources for", n |-> Len(resources),
                  topic |-> topicName],
     resources |-> SubSeq(resources, 1,
                          IF Len(resources) < MaxResources THEN Len(resources)
                          ELSE MaxResources)]

\* Lines 291-306, for a topic [name, wellFormed].  None: line 294 throws.
\* The summary of the catch block names neither a count nor the topic.
CatchResult(topic) ==
    IF EncodeThrows(topic) THEN None
    ELSE Some([summary |-> [text |-> "Could not curate specific resources due to an error.",
                            n |-> 0, topic |-> <<>>],
               resources |->
                  << [title |-> <<"Search ", "\"">> \o topic.name \o <<"\"", " on Google">>,
                      uri |-> <<"https://", "www.", "google.com", "/", "search?q=">>
                                \o EncodeURIComponent(topic.name),
                      description |-> <<"Manual search fallback.">>,
                      source |-> <<"google.com">>,
                      thumbnail |-> None] >>])

\* Lines 200-306 for a settled generation call gen = [ok, chunks, text]:
\* the resources after step 1 (grounded) and after step 2 (enriched), both
\* None when the step was not reached, and the value returned (None: the
\* function rejects).
Curate(topic, context, gen) ==
    IF ~gen.ok \/ GroundingThrows(gen.chunks)
    THEN [grounded |-> None, enriched |-> None, result |-> CatchResult(topic)]
    ELSE LET grounded == GroundedResources(gen.chunks, topic.name)
             enriched == Enrich(grounded, gen.text, topic.name)
         IN  [grounded |-> Some(grounded),
              enriched |-> Some(enriched),
              result |->
                  IF enriched = <<>> /\ EncodeThrows(topic) THEN CatchResult(topic)
                  ELSE Some(CuratedResult(
                           RootFilter(IF enriched = <<>>
                                      THEN SearchFallback(topic.name, context)
                                      ELSE enriched),
                           topic.name))]

\* The response classes of CuratorResponses.
ResponseClass(gen) ==
    IF GroundingThrows(gen.chunks) THEN "badUri"
    ELSE IF UsableChunks(gen.chunks) = <<>> THEN "uncited"
    ELSE "cited"

(***************************************************************************)
(* The settled generation calls runCuratorAgent is checked on.             *)
(***************************************************************************)
MaxMixed == 3
MaxPad == 4

ArticleUri == <<"https://", "example.com", "/", "x">>
WatchUri == <<"https://", "www.", "youtube.com", "/", "watch?v=", "abc12345678">>
HomeUri == <<"https://", "www.", "youtube.com", "/">>

\* Chunks of chunk.web: a bare homepage in both letter cases, a video, an
\* article, the article under another spelling of its address, a chunk
\* without title, and one whose uri has no scheme.
ChunkKinds ==
    { [uri |-> Some(HomeUri), title |-> Some(<<"YouTube">>)],
      [uri |-> Some(<<"HTTPS://", "WWW.", "YOUTUBE.COM", "/">>), title |-> Some(<<"Home">>)],
      [uri |-> Some(WatchUri), title |-> Some(<<"Intro", " ", "- YouTube">>)],
      [uri |-> Some(ArticleUri), title |-> Some(<<"Intro">>)],
      [uri |-> Some(<<"http://", "www.", "example.com", "/", "x", "/">>),
       title |-> Some(<<"video">>)],
      [uri |-> Some(ArticleUri), title |-> None],
      [uri |-> Some(<<"example.com", "/", "x">>), title |-> Some(<<"Intro">>)] }

PadTokens == <<"p1", "p2", "p3", "p4", "p5", "p6">>

\* n chunks citing n different articles.
PadChunks(n) ==
    [k \in 1..n |-> [uri |-> Some(<<"https://", "example.com", "/", PadTokens[k]>>),
                     title |-> Some(<<"Intro">>)]]

SeqsUpTo(S, n) == UNION { [1..m -> S] : m \in 0..n }

ChunkSeqs == { s \o PadChunks(n) : s \in SeqsUpTo(ChunkKinds, MaxMixed), n \in 0..MaxPad }

\* response.text: absent, not JSON, JSON that is no array, or an array.
Texts ==
    { [kind |-> "none", items |-> <<>>],
      [kind |-> "unparsable", items |-> <<>>],
      [kind |-> "object", items |-> <<>>],
      [kind |-> "array", items |->
          << [uri |-> Some(<<"HTTPS://", "Example.com", "/", "x">>),
              description |-> Some(<<"Good.">>), title |-> Some(<<"video">>)] >>],
      [kind |-> "array", items |->
          << [uri |-> Some(<<"https://", "other.org", "/", "y">>),
              description |-> Some(<<"Good.">>), title |-> Some(<<"Intro">>)],
             [uri |-> Some(<<"www.", "youtube.com", "/", "watch?v=", "abc12345678">>),
              description |-> Some(<<"Watch.">>), title |-> Some(<<"LongText">>)] >>],
      [kind |-> "array", items |->
          << [uri |-> Some(<<"example.com", "/", "x">>),
              description |-> None, title |-> Some(<<"Intro">>)],
             [uri |-> Some(<<"example.com", "/", "p1", "/">>),
              description |-> Some(<<"Read.">>), title |-> Some(<<"Intro", " ", "- Wikipedia">>)] >>] }

\* A topic title is [name, wellFormed]; the second holds a lone surrogate.
Topics ==
    { [name |-> <<"SQL", " ", "joins">>, wellFormed |-> TRUE],
      [name |-> <<"SQL", "\\uD800">>, wellFormed |-> FALSE] }

CuratorContext == <<"Course", " ", "Goal", ":", " ", "data">>

Generations ==
    { [ok |-> FALSE, chunks |-> <<>>, text |-> [kind |-> "none", items |-> <<>>]] }
    \cup { [ok |-> TRUE, chunks |-> c, text |-> t] : c \in ChunkSeqs, t \in Texts }

CuratorInit ==
    /\ CtrlInit
    /\ fnPc = "in"
    /\ fnIn \in Topics \X Generations
    /\ fnOut = None

\* One call of runCuratorAgent on the drawn topic and generation.
ApplyCurate ==
    /\ fnPc = "in"
    /\ fnPc' = "out"
    /\ fnOut' = Some(Curate(fnIn[1], CuratorContext, fnIn[2]))
    /\ UNCHANGED <<fnIn, ctrlVars>>

CuratorNext == ApplyCurate

CuratorSpec == CuratorInit /\ [][CuratorNext]_vars

(***************************************************************************)
(* runPlannerAgent on the fields of the answer (geminiService.ts 89-177).  *)
(* A document is the parsed JSON: the set of its top-level fields and, per *)
(* module, the module's fields and the fields of each of its topics.       *)
(***************************************************************************)
MaxDocModules == 2
MaxDocTopics == 1

\* The `required` lists of plannerSchema (lines 111, 114, 117).
RequiredTop == {"title", "description", "modules"}
RequiredModule == {"title", "topics"}
RequiredTopic == {"title", "description", "actionableStep"}

\* All of the fields, or all but one.
AllOrOneMissing(fields) == {fields} \cup { fields \ {f} : f \in fields }

DocModules ==
    { [fields |-> mf, topics |-> ts] :
          mf \in AllOrOneMissing(RequiredModule),
          ts \in SeqsUpTo(AllOrOneMissing(RequiredTopic), MaxDocTopics) }

\* A module without `topics` lists no topics, a document without `modules`
\* no modules.
Documents ==
    { d \in { [kind |-> "json", fields |-> tf, modules |-> ms] :
                  tf \in AllOrOneMissing(RequiredTop),
                  ms \in SeqsUpTo(DocModules, MaxDocModules) } :
          /\ "modules" \notin d.fields => d.modules = <<>>
          /\ \A m \in 1..Len(d.modules) :
                "topics" \notin d.modules[m].fields => d.modules[m].topics = <<>> }

PlannerAnswers ==
    { [kind |-> k, fields |-> {}, modules |-> <<>>] : k \in {"noText", "badJson"} }
    \cup Documents

\* Lines 148, 154, 157 and 159: the statements that throw; line 175 rethrows.
RunPlannerAgentThrows(answer) ==
    \/ answer.kind = "noText"
    \/ answer.kind = "badJson"
    \/ "modules" \notin answer.fields
    \/ \E m \in 1..Len(answer.modules) : "topics" \notin answer.modules[m].fields

\* Lines 120-177.  None: the promise rejects.  Otherwise the fields of the
\* Curriculum returned: the spreads keep what the document has, and add id
\* and createdAt at the top and id in every topic.
RunPlannerAgent(answer) ==
    IF RunPlannerAgentThrows(answer) THEN None
    ELSE Some([fields |-> answer.fields \cup {"id", "createdAt", "modules"},
               modules |->
                  [m \in 1..Len(answer.modules) |->
                      [fields |-> answer.modules[m].fields \cup {"topics"},
                       topics |->
                          [t \in 1..Len(answer.modules[m].topics) |->
                              answer.modules[m].topics[t] \cup {"id"}]]]])

PlannerInit ==
    /\ CtrlInit
    /\ fnPc = "in"
    /\ fnIn \in PlannerAnswers
    /\ fnOut = None

\* One call of runPlannerAgent on the drawn answer.
ApplyPlanner ==
    /\ fnPc = "in"
    /\ fnPc' = "out"
    /\ fnOut' = Some(RunPlannerAgent(fnIn))
    /\ UNCHANGED <<fnIn, ctrlVars>>

PlannerNext == ApplyPlanner

PlannerSpec == PlannerInit /\ [][PlannerNext]_vars

(***************************************************************************)
(* Properties.                                                             *)
(***************************************************************************)
RECURSIVE Pow2(_)
Pow2(n) == IF n = 0 THEN 1 ELSE 2 * Pow2(n - 1)

\* The positions of the topics of the current plan, and the
\* module-then-topic order on them.
AllPositions ==
    UNION { { [moduleIndex |-> m - 1, topicIndex |-> t - 1] : t \in 1..Len(heap[m].topics) } :
            m \in 1..Len(heap) }

Precedes(p, q) ==
    \/ p.moduleIndex < q.moduleIndex
    \/ p.moduleIndex = q.moduleIndex /\ p.topicIndex < q.topicIndex

\* The positions that carry a curatedContent in a document content.
CuratedPositions(content) ==
    UNION { { [moduleIndex |-> m - 1, topicIndex |-> t - 1] :
                  t \in { u \in 1..Len(content[m]) : content[m][u] # None } } :
            m \in 1..Len(content) }

\* C1: a stage change is one of: into 'planning' by the start of a run,
\* 'planning' to 'curating', 'curating' to 'complete', 'planning' or
\* 'curating' to 'error', or into 'idle' by the reset action.
C1_StageChanges ==
    [][ status'.stage # status.stage =>
          \/ status'.stage = "planning" /\ Start
          \/ status.stage = "planning" /\ status'.stage = "curating"
          \/ status.stage = "curating" /\ status'.stage = "complete"
          \/ status.stage \in {"planning", "curating"} /\ status'.stage = "error"
          \/ status'.stage = "idle" /\ Reset ]_vars

C1_Witness ==
    status.stage = "idle" /\ nRuns >= 1 /\ Len(curatorLog) >= 2

\* C2: once runPlannerAgent has failed in a run, the stage is 'error', the
\* run is over, no curator call was made, no document was published and the
\* current document is absent.
C2_PlannerFailureStops ==
    plannerOutcome \in {"failed", "malformed"} =>
        /\ status.stage = "error"
        /\ running = 0
        /\ inFlight = 0
        /\ curatorLog = <<>>
        /\ published = <<>>
        /\ curriculum = None

C2_Witness ==
    plannerOutcome = "failed" /\ nRuns = 2

\* C3: once runPlannerAgent has succeeded in a run, the stage is never
\* 'error', and the run ends only in 'complete' (left only by reset).
C3_CuratorFailuresContained ==
    plannerOutcome = "ok" =>
        /\ status.stage # "error"
        /\ running = 0 => status.stage \in {"complete", "idle"}

\* C4: in stage 'complete' the current document is present and every topic
\* of every module of it has a curatedContent.
C4_CompleteIsFullyCurated ==
    status.stage = "complete" =>
        /\ curriculum # None
        /\ LET content == ContentOf(Get(curriculum), heap)
           IN  \A m \in 1..Len(content) : \A t \in 1..Len(content[m]) :
                   content[m][t] # None

C4_Witness ==
    status.stage = "complete" /\ Len(heap) = 2 /\ Len(curatorLog) = 3

\* C5: every published document still has exactly the curatedContent values
\* it had when it was published.
C5_PublishedSnapshotsUnchanged ==
    \A k \in 1..Len(published) : ContentOf(published[k], heap) = publishedAs[k]

\* C6: the curator calls of a run follow the module-then-topic order without
\* repetition or gap, a completed run has called once for every topic, and the
\* k-th document published after the skeleton carried, when published, a
\* curatedContent on exactly the first k topics of that order.
C6_CuratedInPlannerOrder ==
    /\ \A a \in 1..Len(curatorLog) :
          /\ curatorLog[a] \in AllPositions
          /\ Cardinality({ q \in AllPositions : Precedes(q, curatorLog[a]) }) = a - 1
    /\ status.stage = "complete" => Len(curatorLog) = Cardinality(AllPositions)
    /\ Len(publishedAs) = Len(published)
    /\ Len(published) >= 1 => Len(published) - 1 <= Len(curatorLog)
    /\ \A k \in 2..Len(publishedAs) :
          CuratedPositions(publishedAs[k]) = { curatorLog[j] : j \in 1..(k - 1) }
    /\ \A k \in 1..Len(published) : published[k].ref = k - 1

C6_Witness ==
    /\ Len(published) = 4
    /\ Len(heap) = 2
    /\ Len(heap[1].topics) = 2

\* C7: at most one generation call is in flight, at most one run is under
\* way, a call is in flight only while the run awaits it, and no run can be
\* started in stage 'planning' or 'curating'.
C7_OneCallAtATime ==
    /\ inFlight <= 1
    /\ running <= 1
    /\ inFlight = 1 => pc = "gen"
    /\ status.stage \in {"planning", "curating"} => ~ENABLED Start

C7_Witness ==
    inFlight = 1 /\ agent = "curator" /\ invocations = 2 /\ nRuns = 2

\* C8: when the planner has succeeded the skeleton is published first, and
\* while the first curator call of the run is under way the current document
\* is that skeleton with no curatedContent on any topic.
C8_SkeletonBeforeCuration ==
    /\ plannerOutcome = "ok" =>
          /\ Len(published) >= 1
          /\ published[1].ref = 0
          /\ CuratedPositions(publishedAs[1]) = {}
    /\ Len(curatorLog) = 1 /\ pc \in {"gen", "backoff", "settled"} =>
          /\ curriculum = Some(published[1])
          /\ CuratedPositions(ContentOf(Get(curriculum), heap)) = {}

C8_Witness ==
    Len(curatorLog) = 1 /\ pc = "gen" /\ agent = "curator" /\ Len(allTopics) >= 2

\* C9: within one retryWithBackoff call every invocation after the first
\* follows a rate-limit failure and a wait, the k-th wait is 2000 * 2^(k-1)
\* ms, a failure without rate-limit signature ends the call, and a call in
\* which fn failed twice with a rate-limit signature and then resolved has
\* invoked fn 3 times, waited 2000 then 4000 ms and returned the result.
C9_BackoffSchedule ==
    callResult # "none" =>
        /\ Len(waits) = (IF pc = "backoff" THEN invocations ELSE invocations - 1)
        /\ \A k \in 1..Len(waits) : waits[k] = 2000 * Pow2(k - 1)
        /\ Len(waits) <= fails429
        /\ Len(waits) <= 3
        /\ succeeded /\ fails429 = 2 /\ failsOther = 0 =>
              /\ invocations = 3
              /\ waits = <<2000, 4000>>
              /\ callResult = "ok"

C9_Witness ==
    succeeded /\ fails429 = 2 /\ failsOther = 0 /\ pc = "settled"

\* C10: a failure of fn without rate-limit signature ends the call at once
\* with that error; when it is the first failure, fn was invoked once and
\* nothing was waited for.
C10_OtherErrorsFailAtOnce ==
    failsOther >= 1 =>
        /\ pc = "settled"
        /\ callResult = "thrown"
        /\ thrownErr = raisedErr
        /\ ~HasRateLimitSignature(Get(thrownErr))
        /\ failsOther = 1
        /\ invocations = fails429 + 1
        /\ fails429 = 0 => invocations = 1 /\ waits = <<>>

C10_Witness ==
    failsOther = 1 /\ fails429 = 0 /\ pc = "settled" /\ agent = "curator"

\* C11 (as claimed): fn is invoked at most 3 times in one retryWithBackoff call.
C11_AtMostThreeInvocations ==
    invocations <= 3

\* C11 (amended): fn is invoked at most 1 + retries times in one
\* retryWithBackoff call, 4 with the default retries = 3, and each invocation
\* after the first uses up one retry.
C11_AtMostRetriesPlusOne ==
    /\ invocations <= DefaultRetries + 1
    /\ callResult # "none" => invocations + retries = DefaultRetries + 1

C11_Witness ==
    invocations = 4 /\ fails429 = 4 /\ callResult = "thrown"

\* C12: when retryWithBackoff has given up, the error it rejects with is the
\* error fn raised last, no call is under way and fn is not invoked again:
\* every invocation has failed, and a rate-limit error is delivered only
\* with the budget used up.
C12_OriginalErrorPropagates ==
    callResult = "thrown" =>
        /\ thrownErr # None
        /\ thrownErr = raisedErr
        /\ pc = "settled"
        /\ inFlight = 0
        /\ ~succeeded
        /\ invocations = fails429 + failsOther
        /\ HasRateLimitSignature(Get(thrownErr)) => retries = 0

C12_Witness ==
    /\ callResult = "thrown"
    /\ HasRateLimitSignature(Get(thrownErr))
    /\ invocations = 4
    /\ agent = "planner"

\* The key the claim describes: lower-case, then without a leading http://
\* or https://, without a leading www. and without one trailing slash.
SameUpToCaseSchemeWwwSlash(u1, u2) ==
    StripTrailingSlash(StripSchemeAndWww(Lower(u1)))
        = StripTrailingSlash(StripSchemeAndWww(Lower(u2)))

\* C19: two uris that differ only in letter case, in a leading http:// or
\* https://, in a leading www. or in one trailing slash get the same key.
C19_NormalizeUrlCollapses ==
    fnPc = "out" /\ SameUpToCaseSchemeWwwSlash(fnIn[1], fnIn[2]) =>
        Get(fnOut)[1] = Get(fnOut)[2]

\* C18: cleaning a cleaned title changes nothing.
C18_CleanTitleIdempotent ==
    fnPc = "out" => Get(fnOut)[2] = Get(fnOut)[1]

(***************************************************************************)
(* runCuratorAgent, checked under CuratorSpec: fnIn is <<topic, gen>> and   *)
(* fnOut the record of Curate.                                             *)
(***************************************************************************)
Returned == Get(Get(fnOut).result)

\* The controller's model of the curator (RunCuratorAgent over the response
\* classes) rejects and degrades exactly when the detailed one does.
AbstractCuratorAgrees ==
    fnPc = "out" =>
        LET abstract == RunCuratorAgent(fnIn[1], fnIn[2].ok, ResponseClass(fnIn[2]))
            detailed == Get(fnOut).result
        IN  /\ abstract = None <=> detailed = None
            /\ abstract # None =>
                  (Get(abstract).summary = "Could not curate"
                     <=> Get(detailed).summary.text
                            = "Could not curate specific resources due to an error.")

\* C13: whatever the generation call gave, runCuratorAgent resolves to a
\* CuratedContent (summary and resources) and never throws.
C13_CuratorAlwaysResolves ==
    fnPc = "out" => Get(fnOut).result # None

\* C14: the returned resources list always has between 1 and 5 entries.
C14_OneToFiveResources ==
    fnPc = "out" /\ Get(fnOut).result # None =>
        Len(Returned.resources) \in 1..MaxResources

\* C15: no two returned resources have the same normalized uri.
C15_ResourcesDeduplicated ==
    fnPc = "out" /\ Get(fnOut).result # None =>
        \A j, k \in 1..Len(Returned.resources) :
            NormalizeUrl(Returned.resources[j].uri) = NormalizeUrl(Returned.resources[k].uri)
                => j = k

UrisOf(resources) == [k \in 1..Len(resources) |-> resources[k].uri]

HasMatch(resources, item) ==
    /\ item.uri # None
    /\ \E k \in 1..Len(resources) :
          NormalizeUrl(resources[k].uri) = NormalizeUrl(Get(item.uri))

\* C16: after the enrichment step the resource uris are those built from the
\* grounding citations, in the same order, and the items that match no
\* grounding resource have no effect at all.
C16_EnrichmentKeepsUris ==
    fnPc = "out" /\ Get(fnOut).grounded # None =>
        LET grounded == Get(Get(fnOut).grounded)
            enriched == Get(Get(fnOut).enriched)
            text == fnIn[2].text
            matching == [text EXCEPT
                            !.items = SelectSeq(@, LAMBDA it : HasMatch(grounded, it))]
        IN  /\ UrisOf(enriched) = UrisOf(grounded)
            /\ enriched = Enrich(grounded, matching, fnIn[1].name)
            /\ matching.items = <<>> => enriched = grounded

C16_Witness ==
    /\ fnPc = "out"
    /\ Get(fnOut).grounded # None
    /\ Get(fnOut).enriched # Get(fnOut).grounded
    /\ \E k \in 1..Len(fnIn[2].text.items) :
          /\ Truthy(fnIn[2].text.items[k].uri)
          /\ Truthy(fnIn[2].text.items[k].description)
          /\ ~HasMatch(Get(Get(fnOut).grounded), fnIn[2].text.items[k])

IsPrefix(pre, str) == Len(pre) <= Len(str) /\ SubSeq(str, 1, Len(pre)) = pre

Contains(str, part) ==
    \E k \in 0..(Len(str) - Len(part)) : SubSeq(str, k + 1, k + Len(part)) = part

\* C17: a successful generation call without a citation that has both uri
\* and title gives exactly a Google search link followed by a YouTube search
\* link, both titled with the topic title and without thumbnail.
C17_SearchFallbackPair ==
    fnPc = "out" /\ fnIn[2].ok /\ UsableChunks(fnIn[2].chunks) = <<>> =>
        /\ Get(fnOut).result # None
        /\ Len(Returned.resources) = 2
        /\ IsPrefix(<<"https://", "www.", "google.com", "/", "search?q=">>,
                    Returned.resources[1].uri)
        /\ IsPrefix(<<"https://", "www.", "youtube.com", "/", "results?search_query=">>,
                    Returned.resources[2].uri)
        /\ \A k \in 1..2 :
              /\ Contains(Returned.resources[k].title, fnIn[1].name)
              /\ Returned.resources[k].thumbnail = None

(***************************************************************************)
(* runPlannerAgent, checked under PlannerSpec: fnIn is the answer.         *)
(***************************************************************************)
MissingRequired(answer) ==
    \/ answer.fields # RequiredTop
    \/ \E m \in 1..Len(answer.modules) :
          \/ answer.modules[m].fields # RequiredModule
          \/ \E t \in 1..Len(answer.modules[m].topics) :
                answer.modules[m].topics[t] # RequiredTopic

\* C20: runPlannerAgent rejects when the answer has no text, is not JSON, or
\* lacks a required field at the top, in a module or in a topic.
C20_PlannerRejectsIncomplete ==
    fnPc = "out" /\ (fnIn.kind \in {"noText", "badJson"} \/ MissingRequired(fnIn))
        => Get(fnOut) = None

(***************************************************************************)
(* startGeneration, checked under Spec.                                    *)
(***************************************************************************)
\* C21 (as claimed): a run is started only in stage 'idle'.
C21_StartOnlyFromIdle ==
    [][ Start => status.stage = "idle" ]_vars

\* C21 (amended): a run is started only in stage 'idle' or 'error' and with
\* no current document, and stage 'planning' is entered only by the start of
\* a run: never from 'complete', 'planning' or 'curating'.
C21_StartOnlyFromIdleOrError ==
    [][ /\ Start => status.stage \in {"idle", "error"} /\ curriculum = None
        /\ status'.stage = "planning" /\ status.stage # "planning" => Start
        /\ status.stage = "planning" => ~Start ]_vars

C21_Witness ==
    status.stage = "planning" /\ startedFrom = "error" /\ pc = "gen"

\* C22: every throttle suspension lasts 6000 ms; while the loop is suspended
\* in one, the previous topic's document has been published and the next
\* topic's status has not; otherwise the run has suspended once for every
\* curator call but the first, so a completed run over T >= 1 topics has
\* suspended T - 1 times.
C22_ThrottleBetweenTopics ==
    /\ \A k \in 1..Len(throttles) : throttles[k] = 6000
    /\ pc = "throttle" =>
          /\ i >= 1
          /\ Len(throttles) = i
          /\ Len(curatorLog) = i
          /\ Len(published) = i + 1
          /\ status.stage = "curating"
    /\ pc # "throttle" =>
          Len(throttles) = (IF curatorLog = <<>> THEN 0 ELSE Len(curatorLog) - 1)
    /\ status.stage = "complete" /\ AllPositions # {} =>
          Len(throttles) = Cardinality(AllPositions) - 1

C22_Witness ==
    status.stage = "complete" /\ Len(throttles) = 2 /\ Cardinality(AllPositions) = 3

\* C23: the status published before the curator call for the topic at
\* position i of T has stage 'curating', the integer nearest to 100 * i / T
\* (halves upwards) as progress and that topic's title as currentTask; a
\* published progress is an integer from 0 to 100, does not decrease when a
\* 'curating' or 'complete' status is published, and is 100 in 'complete'.
C23_ProgressPublished ==
    [][ /\ status'.progress \in 0..100
        /\ CallCurator =>
              LET T == Len(allTopics)
                  at == curatorLog'[Len(curatorLog')]
              IN  /\ status'.stage = "curating"
                  /\ 2 * T * status'.progress <= 200 * i + T
                  /\ 200 * i + T < 2 * T * (status'.progress + 1)
                  /\ status'.currentTask
                        = Some(heap[at.moduleIndex + 1].topics[at.topicIndex + 1].title)
                  /\ Cardinality({ q \in AllPositions : Precedes(q, at) }) = i
        /\ status'.stage \in {"curating", "complete"} =>
              status'.progress >= status.progress
        /\ status'.stage = "complete" => status'.progress = 100 ]_vars

C23_Witness ==
    status.stage = "curating" /\ status.progress = 67 /\ pc = "gen"

\* The topic of the current plan at a position.
TopicAt(h, pos) == h[pos.moduleIndex + 1].topics[pos.topicIndex + 1]

\* C24: the document published by a curation step differs from the one
\* before it only in the curatedContent of the topic the step is about, which
\* was absent before: id, createdAt, title, description, the modules and their
\* titles, the topics and their id, title, description and actionableStep are
\* as before, and so as the planner returned them, since nothing else in a
\* run changes a module.
C24_OnlyCuratedContentChanges ==
    [][ /\ MergeAndPublish =>
              LET at == curatorLog[Len(curatorLog)]
                  before == Get(curriculum)
                  after == Get(curriculum')
              IN  /\ after.id = before.id
                  /\ after.createdAt = before.createdAt
                  /\ after.title = before.title
                  /\ after.description = before.description
                  /\ after.modules = before.modules
                  /\ after = published'[Len(published')]
                  /\ Len(heap') = Len(heap)
                  /\ \A m \in 1..Len(heap) :
                        /\ heap'[m].title = heap[m].title
                        /\ Len(heap'[m].topics) = Len(heap[m].topics)
                        /\ \A t \in 1..Len(heap[m].topics) :
                              /\ heap'[m].topics[t].id = heap[m].topics[t].id
                              /\ heap'[m].topics[t].title = heap[m].topics[t].title
                              /\ heap'[m].topics[t].description = heap[m].topics[t].description
                              /\ heap'[m].topics[t].actionableStep
                                    = heap[m].topics[t].actionableStep
                              /\ [moduleIndex |-> m - 1, topicIndex |-> t - 1] # at =>
                                    heap'[m].topics[t].curatedContent
                                        = heap[m].topics[t].curatedContent
                  /\ TopicAt(heap, at).curatedContent = None
                  /\ TopicAt(heap', at).curatedContent # None
        /\ PlannerSucceeds =>
              \A pos \in { [moduleIndex |-> m - 1, topicIndex |-> t - 1] :
                              m \in 1..Len(heap'), t \in 1..MaxPlanTopics } :
                  pos.topicIndex < Len(heap'[pos.moduleIndex + 1].topics) =>
                      TopicAt(heap', pos).curatedContent = None
        /\ heap' # heap => MergeAndPublish \/ PlannerSucceeds \/ Start ]_vars

C24_Witness ==
    /\ pc = "loop"
    /\ i = 3
    /\ Len(heap) = 2
    /\ curriculum = Some(published[4])
    /\ \A pos \in AllPositions : TopicAt(heap, pos).curatedContent # None

\* A run has ended by an exception in the curation loop: it is over, and its
\* last curator call was not followed by a publish.
LoopAborted ==
    /\ plannerOutcome = "ok"
    /\ running = 0
    /\ curatorLog # <<>>
    /\ Len(published) = Len(curatorLog)

\* C25: after an exception in the curation loop the stage is 'error', no
\* call is under way and none can follow in that run, and the current
\* document is the last one published, carrying the curatedContent of every
\* topic curated before the failing call.
C25_AbortKeepsMergedContent ==
    LoopAborted =>
        /\ status.stage = "error"
        /\ pc = "none"
        /\ inFlight = 0
        /\ ~ENABLED CallCurator
        /\ ~ENABLED Throttle
        /\ curriculum = Some(published[Len(published)])
        /\ CuratedPositions(ContentOf(Get(curriculum), heap))
              = { curatorLog[j] : j \in 1..(Len(curatorLog) - 1) }
        /\ Len(curatorLog) <= Cardinality(AllPositions)

C25_Witness ==
    /\ LoopAborted
    /\ Len(curatorLog) = 3
    /\ Cardinality(CuratedPositions(ContentOf(Get(curriculum), heap))) = 2

(***************************************************************************)
(* runCuratorAgent and cleanTitle, continued (CuratorSpec, TitleSpec).     *)
(***************************************************************************)
\* C26: when the generation call has failed, runCuratorAgent returns one
\* resource, the Google search link for the topic title, and the summary
\* that says curation failed.
C26_FailureGivesGoogleLink ==
    fnPc = "out" /\ ~fnIn[2].ok =>
        /\ Get(fnOut).result # None
        /\ Len(Returned.resources) = 1
        /\ IsPrefix(<<"https://", "www.", "google.com", "/", "search?q=">>,
                    Returned.resources[1].uri)
        /\ Contains(Returned.resources[1].title, fnIn[1].name)
        /\ Returned.summary.text = "Could not curate specific resources due to an error."

\* C27: the count stated in the summary "Here are N curated resources for
\* <topic>." is the length of the returned resources list.
C27_SummaryCountsReturned ==
    fnPc = "out" /\ Get(fnOut).result # None
      /\ Returned.summary.text = "Here are N curated resources for" =>
        Returned.summary.n = Len(Returned.resources)

\* The uris of the citations that have both uri and title, bare homepages
\* left out when there are more than two, cut after the fifth.
HomepageUris ==
    { <<"https://", "www.", "youtube.com", "/">>,
      <<"https://", "youtube.com", "/">>,
      <<"https://", "www.", "google.com", "/">> }

FirstFive(seq) == SubSeq(seq, 1, IF Len(seq) < 5 THEN Len(seq) ELSE 5)

ExpectedUris(chunks) ==
    LET cited == SelectSeq(chunks, LAMBDA c : c.uri # None /\ c.title # None)
        uris == [k \in 1..Len(cited) |-> Get(cited[k].uri)]
    IN  FirstFive(IF Len(uris) > 2
                  THEN SelectSeq(uris, LAMBDA u : Lower(u) \notin HomepageUris)
                  ELSE uris)

\* C28: after a successful generation call with at least one citation that
\* has uri and title, the returned resources are, in the order of the
\* citations, the first five of the citations left by the root filter.
C28_FirstFiveInGroundingOrder ==
    fnPc = "out" /\ fnIn[2].ok /\ UsableChunks(fnIn[2].chunks) # <<>> =>
        /\ Get(fnOut).result # None
        /\ UrisOf(Returned.resources) = ExpectedUris(fnIn[2].chunks)

\* C29: when steps 1 to 3 leave more than two resources, the bare homepages
\* among them (in any letter case) are dropped and the others go on
\* unchanged, a watch uri with its hqdefault thumbnail; when they leave one or
\* two, all of them go on, a bare homepage included.
C29_RootFilterAboveTwo ==
    fnPc = "out" /\ Get(fnOut).enriched # None /\ Get(Get(fnOut).enriched) # <<>> =>
        LET enriched == Get(Get(fnOut).enriched)
        IN  /\ Get(fnOut).result # None
            /\ Len(enriched) > 2 =>
                  Returned.resources
                      = FirstFive(SelectSeq(enriched,
                                            LAMBDA r : Lower(r.uri) \notin HomepageUris))
            /\ Len(enriched) <= 2 => Returned.resources = enriched
            /\ \A k \in 1..Len(Returned.resources) :
                  Returned.resources[k].uri = WatchUri =>
                      Returned.resources[k].thumbnail
                          = Some(<<"https://img.youtube.com/vi/", "abc12345678",
                                   "/hqdefault.jpg">>)

C29_Witness ==
    /\ fnPc = "out"
    /\ Get(fnOut).enriched # None
    /\ Len(Get(Get(fnOut).enriched)) = 3
    /\ Get(fnOut).result # None
    /\ Len(Returned.resources) = 1
    /\ Returned.resources[1].uri = WatchUri
    /\ \E k \in 1..3 : Get(Get(fnOut).enriched)[k].uri = HomeUri
    /\ \E k \in 1..3 : Get(Get(fnOut).enriched)[k].uri # Lower(Get(Get(fnOut).enriched)[k].uri)

\* C30: for one uri and topic title, cleanTitle gives the placeholder title
\* 'video' the title it gives a blank title.
C30_SameFallbackTitle ==
    fnPc = "out" /\ fnIn[1][1] = <<"video">> => Get(fnOut)[1] = Get(fnOut)[3]

(***************************************************************************)
(* runPlannerAgent and the stage-gated actions, checked under Spec.        *)
(***************************************************************************)
\* C31: in the curriculum runPlannerAgent returned, the topic at module
\* index m and topic index t has the id m<m>-t<t>, whatever id the answer
\* gave it, so the ids are pairwise distinct, and modules and topics stand in
\* the order of the answer (the m-th module and its t-th topic carry the
\* titles the answer gave them).
C31_TopicIdsByPosition ==
    plannerOutcome = "ok" =>
        /\ \A pos \in AllPositions :
              TopicAt(heap, pos).id = [m |-> pos.moduleIndex, t |-> pos.topicIndex]
        /\ \A p, q \in AllPositions :
              TopicAt(heap, p).id = TopicAt(heap, q).id => p = q
        /\ \A m \in 1..Len(heap) :
              /\ heap[m].title = m
              /\ \A t \in 1..Len(heap[m].topics) : heap[m].topics[t].title.name = <<m, t>>

C31_Witness ==
    /\ plannerOutcome = "ok"
    /\ pc = "loop"
    /\ i = 0
    /\ Len(heap) = 2
    /\ Cardinality(AllPositions) = 3

\* C32: when runPlannerAgent rejects an answer (no text, no JSON, no
\* modules), the generation call that gave the answer is the last one of the
\* run: stage 'error' is published and the run is over; before it only
\* rate-limit failures were answered by another call.  A generation call is
\* issued only by the start of a run, by the curation loop, or by the retry
\* after a rate-limit failure.
C32_MalformedNotRetried ==
    [][ /\ PlannerFails /\ callResult = "ok" =>
              /\ invocations = fails429 + 1
              /\ failsOther = 0
              /\ status'.stage = "error"
              /\ running' = 0
              /\ inFlight' = 0
              /\ pc' = "none"
              /\ curriculum' = None
        /\ inFlight' > inFlight =>
              \/ Start
              \/ CallCurator
              \/ /\ BackoffElapsed
                 /\ raisedErr # None
                 /\ HasRateLimitSignature(Get(raisedErr)) ]_vars

C32_Witness ==
    /\ plannerOutcome = "malformed"
    /\ status.stage = "error"
    /\ pc = "none"
    /\ inFlight = 0
    /\ nRuns = 1

\* C34: in stage 'idle' and in stage 'planning' there is no current
\* document: reset leaves none behind, and a run starts with none.
C34_NoDocumentBeforeCurating ==
    status.stage \in {"idle", "planning"} => curriculum = None

C34_Witness ==
    /\ status.stage = "planning"
    /\ startedFrom = "idle"
    /\ nRuns = 2
    /\ curriculum = None

\* C35: while no run is under way the form or the reset button is offered.
C35_SomeActionOffered ==
    running = 0 => FormVisible \/ ResetVisible

(***************************************************************************)
(* runCuratorAgent, continued (CuratorSpec).                               *)
(***************************************************************************)
\* C33: when the generation call succeeded and one citation's uri cannot be
\* parsed as a URL, runCuratorAgent returns the one Google search resource
\* of its catch block with the summary that says curation failed, and none
\* of the resources of the other citations.
C33_BadCitationGivesFallback ==
    fnPc = "out" /\ fnIn[2].ok /\ GroundingThrows(fnIn[2].chunks) =>
        /\ Get(fnOut).result # None
        /\ Len(Returned.resources) = 1
        /\ IsPrefix(<<"https://", "www.", "google.com", "/", "search?q=">>,
                    Returned.resources[1].uri)
        /\ Returned.summary.text = "Could not curate specific resources due to an error."

====
